---- MODULE Spec2Model ----
(***************************************************************************)
(* Model of the transport and delivery layer of max-bot-go:                *)
(*   - the long-poll worker (client/types.go, StartPolling/pollingWorker), *)
(*   - the retry policy (client/retry.go, retryRequest),                   *)
(*   - the webhook ingress (client/webhook.go, ParseRequest).              *)
(* The three components do not share state; each has its own next-state    *)
(* relation and its own specification over the common variable tuple.      *)
(***************************************************************************)
EXTENDS Integers, Sequences, FiniteSets, TLC

(***************************************************************************)
(* Bounds of the model                                                     *)
(***************************************************************************)
\* largest update id the remote side returns
MaxId == 1
\* longest result list of one getUpdates response
MaxBatch == 2
\* number of loop iterations of the polling worker that start a fetch
MaxIter == 2
\* number of events the remote side hands out during the session
MaxEvents == 2
\* largest delivery-channel capacity (PollingConfig.BufferSize)
MaxBuf == 1
\* number of times the same (signature, body) pair is verified
MaxVerify == 2

VARIABLES
    \* ---- polling session (types.go) ----
    pc,            \* position of pollingWorker: "loop", "fetch", "sleep", "send", "done"
    cancelled,     \* ctx.Done() of the polling context is closed
    closeCount,    \* number of times close(updates) has run
    BufferSize,    \* config.BufferSize, capacity of the updates channel
    UpdateOffset,  \* config.UpdateOffset, the cursor
    startOffset,   \* config.UpdateOffset as passed to StartPolling
    updates,       \* contents of the updates channel
    placed,        \* every PollingUpdate the worker has sent, in order
    fetched,       \* every event of every decoded ok response, in order
    batch,         \* apiResponse.Result of the iteration in progress
    idx,           \* position of the range loop in batch (1-based)
    iter,          \* number of fetch iterations started
    reqOffset,     \* the offset parameter of the request in flight
    errSent,       \* how the sendUpdateError call of the iteration in progress ended
    \* ---- one run of retryRequest (retry.go) ----
    rpc,           \* position of retryRequest: "check" (loop head) or "returned"
    ri,            \* the loop variable i
    lastErr,       \* the local lastErr
    ret,           \* the value retryRequest returned
    rctx,          \* ctx.Done() of the context passed to retryRequest is closed
    opKind,        \* which operation fn is: a test double, or the closure of an API call
    calls,         \* the result of every invocation of fn, in order
    attempts,      \* what every invocation of fn met on the transport, in order
    slept,         \* seconds retryRequest itself has slept (time.Sleep(retryDelay))
    opSlept,       \* seconds fn has slept inside its invocations
    \* ---- webhook ingress (webhook.go) ----
    secret,        \* WebhookHandler.secret
    request,       \* the *http.Request of the latest ParseRequest call
    whEvent,       \* the *WebhookEvent ParseRequest returned
    whErr,         \* the error ParseRequest returned
    whVia,         \* how the request came in: "ParseRequest" or "Handle" ("none" before)
    nextCalls,     \* number of times Handle has invoked the downstream handler
    nextEvent,     \* the "webhookEvent" value of the context handed downstream
    respStatus,    \* the status Handle wrote with http.Error (0: it wrote none)
    respBody,      \* the text Handle handed to http.Error
    vSig,          \* the signature of the pair given to VerifySignature
    vBody,         \* the body of the pair given to VerifySignature
    vResults,      \* the result of every VerifySignature call on that pair
    \* ---- a second session started on the same client (types.go) ----
    sameConfig,    \* the second StartPolling was given the same *PollingConfig
    peerWritten,   \* the values the second worker has stored in the shared cursor
    peerOffset     \* the second session's own config.UpdateOffset, when not shared

pollVars == <<pc, cancelled, closeCount, BufferSize, UpdateOffset, startOffset,
              updates, placed, fetched, batch, idx, iter, reqOffset, errSent>>

retryVars == <<rpc, ri, lastErr, ret, rctx, opKind, calls, attempts, slept, opSlept>>

webhookVars == <<secret, request, whEvent, whErr, whVia, nextCalls, nextEvent,
                 respStatus, respBody, vSig, vBody, vResults>>

peerVars == <<sameConfig, peerWritten, peerOffset>>

vars == <<pollVars, retryVars, webhookVars, peerVars>>

(***************************************************************************)
(* Values                                                                  *)
(***************************************************************************)
\* a nil *WebhookEvent / a nil error
Nil == [isNil |-> TRUE]

\* a decoded *WebhookEvent; only update_id matters to the worker
WebhookEvent(id) == [UpdateID |-> id]

UpdateIds == 0..MaxId

\* PollingConfig.UpdateOffset as configured: the default of a fresh session,
\* or the offset of a resumed session that lies above every id in UpdateIds
StartOffsets == {0, MaxId + 1}

\* (variant) the record's UpdateID is left at its zero value
EventUpdate_NoId(update) == [UpdateID |-> 0, Event |-> update, Error |-> Nil]

\* PollingUpdate{UpdateID: update.UpdateID, Event: update}
EventUpdate(update) == [UpdateID |-> update.UpdateID, Event |-> update, Error |-> Nil]

\* PollingUpdate{Error: err}
ErrorUpdate(err) == [UpdateID |-> 0, Event |-> Nil, Error |-> err]

\* errors the polling iteration can meet
PollErr(what) == [msg |-> what]

RECURSIVE SeqsUpTo(_, _)
SeqsUpTo(S, n) ==
    IF n = 0 THEN {<<>>}
    ELSE LET shorter == SeqsUpTo(S, n - 1)
         IN shorter \cup {Append(s, x) : s \in {t \in shorter : Len(t) = n - 1}, x \in S}

\* the result lists a getUpdates response can carry: every element is a
\* decoded event object
Batches == SeqsUpTo({WebhookEvent(id) : id \in UpdateIds}, MaxBatch)

\* the update ids of the event records among a sequence of PollingUpdates
RECURSIVE EventIds(_)
EventIds(recs) ==
    IF recs = <<>> THEN <<>>
    ELSE IF Head(recs).Event # Nil
         THEN <<Head(recs).UpdateID>> \o EventIds(Tail(recs))
         ELSE EventIds(Tail(recs))

RECURSIVE IdsOf(_)
IdsOf(evs) == IF evs = <<>> THEN <<>> ELSE <<Head(evs).UpdateID>> \o IdsOf(Tail(evs))

(***************************************************************************)
(* Polling session: StartPolling and pollingWorker                         *)
(***************************************************************************)
\* StartPolling: make(chan PollingUpdate, config.BufferSize); go pollingWorker
PollInit ==
    /\ pc = "loop"
    /\ cancelled = FALSE
    /\ closeCount = 0
    /\ BufferSize \in 0..MaxBuf
    /\ startOffset \in StartOffsets
    /\ UpdateOffset = startOffset
    /\ updates = <<>>
    /\ placed = <<>>
    /\ fetched = <<>>
    /\ batch = <<>>
    /\ idx = 1
    /\ iter = 0
    /\ reqOffset = 0
    /\ errSent = "none"

\* (variant) a full channel makes room for the error by replacing the record
\* queued last
sendUpdateError_Overwrites(err) ==
    \/ /\ Len(updates) < BufferSize
       /\ updates' = Append(updates, ErrorUpdate(err))
       /\ placed' = Append(placed, ErrorUpdate(err))
       /\ errSent' = "sent"
    \/ /\ BufferSize = 0
       /\ updates' = updates
       /\ placed' = Append(placed, ErrorUpdate(err))
       /\ errSent' = "sent"
    \/ /\ Len(updates) >= BufferSize
       /\ BufferSize > 0
       /\ updates' = [updates EXCEPT ![Len(updates)] = ErrorUpdate(err)]
       /\ placed' = Append(placed, ErrorUpdate(err))
       /\ errSent' = "sent"

\* sendUpdateError: select { case updates <- PollingUpdate{Error: err}: default: }
\* A buffered channel takes the record when it has room; an unbuffered one
\* takes it only when the consumer is waiting in a receive; otherwise the
\* default branch drops the record.
sendUpdateError(err) ==
    \/ /\ Len(updates) < BufferSize
       /\ updates' = Append(updates, ErrorUpdate(err))
       /\ placed' = Append(placed, ErrorUpdate(err))
       /\ errSent' = "sent"
    \/ /\ BufferSize = 0
       /\ updates' = updates
       /\ placed' = Append(placed, ErrorUpdate(err))
       /\ errSent' = "sent"
    \/ /\ Len(updates) >= BufferSize
       /\ errSent' = "dropped"
       /\ UNCHANGED <<updates, placed>>

\* defer close(updates), run by either return of the worker
CloseUpdates ==
    /\ closeCount' = closeCount + 1
    /\ pc' = "done"

\* loop top, case <-ctx.Done(): return
StopAtLoop ==
    /\ pc = "loop"
    /\ cancelled
    /\ CloseUpdates
    /\ UNCHANGED <<cancelled, BufferSize, UpdateOffset, startOffset, updates,
                   placed, fetched, batch, idx, iter, reqOffset, errSent>>
    /\ UNCHANGED <<retryVars, webhookVars, peerVars>>

\* (variant) every request carries the offset the session started with
BuildRequest_StaleOffset ==
    /\ pc = "loop"
    /\ ~cancelled
    /\ iter < MaxIter
    /\ iter' = iter + 1
    /\ reqOffset' = startOffset
    /\ pc' = "fetch"
    /\ UNCHANGED <<cancelled, closeCount, BufferSize, UpdateOffset, startOffset,
                   updates, placed, fetched, batch, idx, errSent>>
    /\ UNCHANGED <<retryVars, webhookVars, peerVars>>

\* loop top, default: the request is built with offset = config.UpdateOffset
\* and handed to httpClient.Do
BuildRequest ==
    /\ pc = "loop"
    /\ ~cancelled
    /\ iter < MaxIter
    /\ iter' = iter + 1
    /\ reqOffset' = UpdateOffset
    /\ pc' = "fetch"
    /\ UNCHANGED <<cancelled, closeCount, BufferSize, UpdateOffset, startOffset,
                   updates, placed, fetched, batch, idx, errSent>>
    /\ UNCHANGED <<retryVars, webhookVars, peerVars>>

\* loop top, default: http.NewRequestWithContext fails
BuildRequestFails ==
    /\ pc = "loop"
    /\ ~cancelled
    /\ iter < MaxIter
    /\ iter' = iter + 1
    /\ sendUpdateError(PollErr("create request"))
    /\ pc' = "sleep"
    /\ UNCHANGED <<cancelled, closeCount, BufferSize, UpdateOffset, startOffset,
                   fetched, batch, idx, reqOffset>>
    /\ UNCHANGED <<retryVars, webhookVars, peerVars>>

\* (variant) a failed fetch ends the session
FetchNetworkError_Returns ==
    /\ pc = "fetch"
    /\ sendUpdateError(PollErr("network"))
    /\ CloseUpdates
    /\ UNCHANGED <<cancelled, BufferSize, UpdateOffset, startOffset,
                   fetched, batch, idx, iter, reqOffset>>
    /\ UNCHANGED <<retryVars, webhookVars, peerVars>>

\* httpClient.Do returns an error (network failure, or the context was
\* cancelled while the request was in flight)
FetchNetworkError ==
    /\ pc = "fetch"
    /\ sendUpdateError(PollErr("network"))
    /\ pc' = "sleep"
    /\ UNCHANGED <<cancelled, closeCount, BufferSize, UpdateOffset, startOffset,
                   fetched, batch, idx, iter, reqOffset>>
    /\ UNCHANGED <<retryVars, webhookVars, peerVars>>

\* resp.StatusCode != http.StatusOK
FetchStatusError ==
    /\ pc = "fetch"
    /\ sendUpdateError(PollErr("api error"))
    /\ pc' = "sleep"
    /\ UNCHANGED <<cancelled, closeCount, BufferSize, UpdateOffset, startOffset,
                   fetched, batch, idx, iter, reqOffset>>
    /\ UNCHANGED <<retryVars, webhookVars, peerVars>>

\* json Decode of the response body fails
FetchDecodeError ==
    /\ pc = "fetch"
    /\ sendUpdateError(PollErr("decode"))
    /\ pc' = "sleep"
    /\ UNCHANGED <<cancelled, closeCount, BufferSize, UpdateOffset, startOffset,
                   fetched, batch, idx, iter, reqOffset>>
    /\ UNCHANGED <<retryVars, webhookVars, peerVars>>

\* the response decodes with ok = false: no record, retry delay
FetchNotOK ==
    /\ pc = "fetch"
    /\ pc' = "sleep"
    /\ UNCHANGED <<cancelled, closeCount, BufferSize, UpdateOffset, startOffset,
                   updates, placed, fetched, batch, idx, iter, reqOffset, errSent>>
    /\ UNCHANGED <<retryVars, webhookVars, peerVars>>

\* the response decodes with ok = true and a result list; an empty list
\* falls through the range loop to the next iteration
FetchOK ==
    /\ pc = "fetch"
    /\ \E result \in Batches :
          /\ Len(fetched) + Len(result) <= MaxEvents
          /\ batch' = result
          /\ fetched' = fetched \o result
          /\ pc' = IF result = <<>> THEN "loop" ELSE "send"
    /\ idx' = 1
    /\ UNCHANGED <<cancelled, closeCount, BufferSize, UpdateOffset, startOffset,
                   updates, placed, iter, reqOffset, errSent>>
    /\ UNCHANGED <<retryVars, webhookVars, peerVars>>

\* time.Sleep(config.RetryDelay); continue
RetryDelayElapsed ==
    /\ pc = "sleep"
    /\ pc' = "loop"
    /\ errSent' = "none"
    /\ UNCHANGED <<cancelled, closeCount, BufferSize, UpdateOffset, startOffset,
                   updates, placed, fetched, batch, idx, iter, reqOffset>>
    /\ UNCHANGED <<retryVars, webhookVars, peerVars>>

\* (variant) the cursor is set to the delivered id itself
AdvanceOffset_NoIncrement(update) == update.UpdateID

\* the cursor after a successful send of update
AdvanceOffset(update) == update.UpdateID + 1

\* (variant) the send is non-blocking, as in sendUpdateError: a full buffer
\* makes the worker skip the event
SendEvent_DropWhenFull ==
    /\ pc = "send"
    /\ LET update == batch[idx]
       IN \/ /\ Len(updates) < BufferSize
             /\ updates' = Append(updates, EventUpdate(update))
             /\ placed' = Append(placed, EventUpdate(update))
             /\ UpdateOffset' = AdvanceOffset(update)
          \/ /\ Len(updates) >= BufferSize
             /\ UNCHANGED <<updates, placed, UpdateOffset>>
    /\ idx' = idx + 1
    /\ pc' = IF idx = Len(batch) THEN "loop" ELSE "send"
    /\ UNCHANGED <<cancelled, closeCount, BufferSize, startOffset, fetched,
                   batch, iter, reqOffset, errSent>>
    /\ UNCHANGED <<retryVars, webhookVars, peerVars>>

\* range loop, case updates <- PollingUpdate{...}: the send goes through when
\* the buffer has room (or, unbuffered, when the consumer is receiving), and
\* the case body advances the cursor; only the worker reads or writes the
\* cursor, so the send and the assignment after it are one step
SendEvent ==
    /\ pc = "send"
    /\ LET update == batch[idx]
       IN /\ \/ /\ Len(updates) < BufferSize
                /\ updates' = Append(updates, EventUpdate(update))
             \/ /\ BufferSize = 0
                /\ updates' = updates
          /\ placed' = Append(placed, EventUpdate(update))
          /\ UpdateOffset' = AdvanceOffset(update)
    /\ idx' = idx + 1
    /\ pc' = IF idx = Len(batch) THEN "loop" ELSE "send"
    /\ UNCHANGED <<cancelled, closeCount, BufferSize, startOffset, fetched,
                   batch, iter, reqOffset, errSent>>
    /\ UNCHANGED <<retryVars, webhookVars, peerVars>>

\* (variant) the worker counts the pending event as handled before returning
StopInSend_AdvancesCursor ==
    /\ pc = "send"
    /\ cancelled
    /\ CloseUpdates
    /\ UpdateOffset' = AdvanceOffset(batch[idx])
    /\ UNCHANGED <<cancelled, BufferSize, startOffset, updates,
                   placed, fetched, batch, idx, iter, reqOffset, errSent>>
    /\ UNCHANGED <<retryVars, webhookVars, peerVars>>

\* range loop, case <-ctx.Done(): return
StopInSend ==
    /\ pc = "send"
    /\ cancelled
    /\ CloseUpdates
    /\ UNCHANGED <<cancelled, BufferSize, UpdateOffset, startOffset, updates,
                   placed, fetched, batch, idx, iter, reqOffset, errSent>>
    /\ UNCHANGED <<retryVars, webhookVars, peerVars>>

\* the caller cancels the context passed to StartPolling
Cancel ==
    /\ ~cancelled
    /\ cancelled' = TRUE
    /\ UNCHANGED <<pc, closeCount, BufferSize, UpdateOffset, startOffset, updates,
                   placed, fetched, batch, idx, iter, reqOffset, errSent>>
    /\ UNCHANGED <<retryVars, webhookVars, peerVars>>

\* the consumer receives one record from the buffered channel
Receive ==
    /\ updates # <<>>
    /\ updates' = Tail(updates)
    /\ UNCHANGED <<pc, cancelled, closeCount, BufferSize, UpdateOffset, startOffset,
                   placed, fetched, batch, idx, iter, reqOffset, errSent>>
    /\ UNCHANGED <<retryVars, webhookVars, peerVars>>

pollingWorker ==
    \/ StopAtLoop
    \/ BuildRequest
    \/ BuildRequestFails
    \/ FetchNetworkError
    \/ FetchStatusError
    \/ FetchDecodeError
    \/ FetchNotOK
    \/ FetchOK
    \/ RetryDelayElapsed
    \/ SendEvent
    \/ StopInSend

\* A second StartPolling on the same client. Its worker goroutine runs the
\* same code on its own channel; what it shares with the first session is at
\* most the PollingConfig its config pointer refers to. A nil config gives
\* each session its own DefaultPollingConfig.
PeerInit ==
    /\ sameConfig \in BOOLEAN
    /\ peerWritten = {}
    /\ peerOffset = 0

\* the second worker's send case: it has placed an event on its own channel
\* and stores update.UpdateID + 1 through its config pointer
PeerSendEvent ==
    /\ \E update \in {WebhookEvent(id) : id \in UpdateIds} :
          IF sameConfig
          THEN /\ UpdateOffset' = AdvanceOffset(update)
               /\ peerWritten' = peerWritten \cup {AdvanceOffset(update)}
               /\ UNCHANGED peerOffset
          ELSE /\ peerOffset' = AdvanceOffset(update)
               /\ UNCHANGED <<UpdateOffset, peerWritten>>
    /\ UNCHANGED <<pc, cancelled, closeCount, BufferSize, startOffset, updates,
                   placed, fetched, batch, idx, iter, reqOffset, errSent>>
    /\ UNCHANGED sameConfig
    /\ UNCHANGED <<retryVars, webhookVars>>

\* loop top, default, with the cursor shared: the read of config.UpdateOffset
\* races with the second worker's stores, which nothing orders before it, so
\* it may observe any of them instead of the latest value
BuildRequestRacy ==
    /\ pc = "loop"
    /\ ~cancelled
    /\ iter < MaxIter
    /\ sameConfig
    /\ iter' = iter + 1
    /\ \E v \in peerWritten : reqOffset' = v
    /\ pc' = "fetch"
    /\ UNCHANGED <<cancelled, closeCount, BufferSize, UpdateOffset, startOffset,
                   updates, placed, fetched, batch, idx, errSent>>
    /\ UNCHANGED <<retryVars, webhookVars, peerVars>>

(***************************************************************************)
(* Retry policy: retryRequest                                              *)
(***************************************************************************)
maxRetries == 3
\* delays in seconds
retryDelay == 1
rateLimitDelay == 5

\* an error value: the sentinel it matches under errors.Is ("none" for an
\* error built by fmt.Errorf without a sentinel) and its text
Error(sentinel, text) == [is |-> sentinel, msg |-> text]

ErrInvalidChatID == Error("ErrInvalidChatID", "invalid chat ID")
ErrUnauthorized == Error("ErrUnauthorized", "unauthorized")
ErrRateLimit == Error("ErrRateLimit", "rate limit exceeded")
\* ctx.Err() of a cancelled context
ContextCanceled == Error("context.Canceled", "context canceled")

\* errors.Is(err, target)
errorsIs(err, target) == err # Nil /\ err.is = target.is

\* what a test double passed as fn may return
StubOutcomes ==
    { Nil, ErrUnauthorized, ErrInvalidChatID, ErrRateLimit,
      Error("ErrUnauthorized", "get chat: unauthorized"),
      Error("none", "API error 500: internal"),
      Error("none", "API error 503: unavailable"),
      Error("none", "error sending request: timeout") }

\* the API calls that run their round trip under retryRequest
APICalls ==
    { "SendMessage", "GetChat", "GetMessages", "StartScenario", "StopScenario",
      "SetChatVariables", "TransferToAgent" }

\* the response statuses of the model
Statuses == {200, 400, 401, 429, 500}

\* What one invocation of fn meets. step is where it ends: "marshal"
\* (json.Marshal of the body fails), "create" (NewRequestWithContext fails),
\* "do" (httpClient.Do fails), "response" (a response with a status, whose
\* body is or is not a JSON document of the expected shape), or "stub" (a
\* test double that just returns an error value).
Attempt(step, status, decodes, returns) ==
    [step |-> step, status |-> status, decodes |-> decodes, returns |-> returns]

HTTPAttempts ==
    {Attempt("create", 0, FALSE, Nil), Attempt("do", 0, FALSE, Nil)}
      \cup {Attempt("response", st, d, Nil) : st \in Statuses, d \in BOOLEAN}

\* the calls whose closure marshals a caller-supplied body (sendRequest with
\* a map or a struct); StartScenario hands over bytes, StopScenario nothing
MarshalsBody(kind) == kind \in {"SetChatVariables", "TransferToAgent"}

\* the calls whose closure decodes the response into a result
DecodesResult(kind) == kind \in {"SendMessage", "GetChat", "GetMessages", "StartScenario"}

Attempts(kind) ==
    IF kind = "stub" THEN {Attempt("stub", 0, FALSE, e) : e \in StubOutcomes}
    ELSE HTTPAttempts
           \cup (IF MarshalsBody(kind) THEN {Attempt("marshal", 0, FALSE, Nil)} ELSE {})

\* parseAPIError: fmt.Errorf("API error %d: %s", ...) from the error document
\* of the body when it decodes, from the status and the raw body otherwise;
\* never one of the sentinel errors
parseAPIError(status, decodes) ==
    IF decodes
    THEN Error("none", CASE status = 400 -> "API error 400: bad request"
                         [] status = 401 -> "API error 401: unauthorized"
                         [] status = 429 -> "API error 429: too many requests"
                         [] OTHER -> "API error 500: internal")
    ELSE Error("none", CASE status = 400 -> "API error 400: <raw body>"
                         [] status = 401 -> "API error 401: <raw body>"
                         [] status = 429 -> "API error 429: <raw body>"
                         [] OTHER -> "API error 500: <raw body>")

\* sendRequest, the round trip of StartScenario, StopScenario,
\* SetChatVariables and TransferToAgent; wantsResult is result != nil
sendRequest(a, wantsResult) ==
    IF a.step = "marshal" THEN Error("none", "error marshaling body")
    ELSE IF a.step = "create" THEN Error("none", "error creating request")
    ELSE IF a.step = "do" THEN Error("none", "error sending request: timeout")
    ELSE IF a.status >= 400 THEN parseAPIError(a.status, a.decodes)
    ELSE IF wantsResult /\ ~a.decodes THEN Error("none", "error decoding response")
    ELSE Nil

\* the closure SendMessage passes to retryRequest
SendMessageClosure(a) ==
    IF a.step = "create" THEN Error("none", "error creating request")
    ELSE IF a.step = "do" THEN Error("none", "error sending request: timeout")
    ELSE IF a.status = 429 THEN ErrRateLimit
    ELSE IF a.status >= 400 THEN parseAPIError(a.status, a.decodes)
    ELSE IF ~a.decodes THEN Error("none", "error decoding response")
    ELSE Nil

\* the closure GetChat and GetMessages pass to retryRequest; the decode
\* error is returned as json gives it
GetClosure(a) ==
    IF a.step = "create" THEN Error("none", "error creating request")
    ELSE IF a.step = "do" THEN Error("none", "error sending request: timeout")
    ELSE IF a.status >= 400 THEN parseAPIError(a.status, a.decodes)
    ELSE IF ~a.decodes THEN Error("none", "unexpected end of JSON input")
    ELSE Nil

\* the error fn returns for what it met
ClosureResult(kind, a) ==
    IF kind = "stub" THEN a.returns
    ELSE IF kind = "SendMessage" THEN SendMessageClosure(a)
    ELSE IF kind \in {"GetChat", "GetMessages"} THEN GetClosure(a)
    ELSE sendRequest(a, DecodesResult(kind))

\* what the closure of SendMessage may return
SendMessageOutcomes == {SendMessageClosure(a) : a \in HTTPAttempts}

OpOutcomes(kind) == {ClosureResult(kind, a) : a \in Attempts(kind)}

\* seconds fn sleeps before returning err: the closure of SendMessage
\* sleeps rateLimitDelay on HTTP 429 before it returns ErrRateLimit
OpDelay(kind, err) ==
    IF kind = "SendMessage" /\ err = ErrRateLimit THEN rateLimitDelay ELSE 0

\* (variant) only the invalid-identifier error ends the loop
IsNonRetryable_OnlyChatID(err) == errorsIs(err, ErrInvalidChatID)

\* errors.Is(err, ErrInvalidChatID) || errors.Is(err, ErrUnauthorized)
IsNonRetryable(err) == errorsIs(err, ErrInvalidChatID) \/ errorsIs(err, ErrUnauthorized)

\* (variant) the first error is kept
RecordError_KeepFirst(prev, err) == IF prev = Nil THEN err ELSE prev

\* lastErr = err
RecordError(prev, err) == err

\* (variant) the delay follows every failed attempt, the last one included
InterAttemptDelay_AfterLast(i, err) == retryDelay

\* if i < maxRetries-1 { time.Sleep(retryDelay) }
InterAttemptDelay(i, err) == IF i < maxRetries - 1 THEN retryDelay ELSE 0

RetryInit ==
    /\ rpc = "check"
    /\ ri = 0
    /\ lastErr = Nil
    /\ ret = Nil
    /\ rctx \in BOOLEAN
    /\ opKind \in {"stub"} \cup APICalls
    /\ calls = <<>>
    /\ attempts = <<>>
    /\ slept = 0
    /\ opSlept = 0

\* loop head, case <-ctx.Done(): return ctx.Err()
RetryCtxDone ==
    /\ rpc = "check"
    /\ ri < maxRetries
    /\ rctx
    /\ ret' = ContextCanceled
    /\ rpc' = "returned"
    /\ UNCHANGED <<ri, lastErr, rctx, opKind, calls, attempts, slept, opSlept>>
    /\ UNCHANGED <<pollVars, webhookVars, peerVars>>

\* (variant) fn is invoked without looking at the context
RetryAttempt_NoCtxCheck ==
    /\ rpc = "check"
    /\ ri < maxRetries
    /\ \E a \in Attempts(opKind) :
          LET err == ClosureResult(opKind, a)
          IN /\ attempts' = Append(attempts, a)
             /\ calls' = Append(calls, err)
             /\ opSlept' = opSlept + OpDelay(opKind, err)
             /\ IF err = Nil
                THEN /\ ret' = Nil
                     /\ rpc' = "returned"
                     /\ UNCHANGED <<ri, lastErr, slept>>
                ELSE IF IsNonRetryable(err)
                THEN /\ lastErr' = RecordError(lastErr, err)
                     /\ ret' = lastErr'
                     /\ rpc' = "returned"
                     /\ UNCHANGED <<ri, slept>>
                ELSE /\ lastErr' = RecordError(lastErr, err)
                     /\ slept' = slept + InterAttemptDelay(ri, err)
                     /\ ri' = ri + 1
                     /\ UNCHANGED <<rpc, ret>>
    /\ UNCHANGED <<rctx, opKind>>
    /\ UNCHANGED <<pollVars, webhookVars, peerVars>>

\* loop head, default: one iteration of the loop body. fn returns err; nil
\* returns nil; a non-retryable error breaks out and is returned; any other
\* error is recorded, followed by the delay unless this was the last attempt
RetryAttempt ==
    /\ rpc = "check"
    /\ ri < maxRetries
    /\ ~rctx
    /\ \E a \in Attempts(opKind) :
          LET err == ClosureResult(opKind, a)
          IN /\ attempts' = Append(attempts, a)
             /\ calls' = Append(calls, err)
             /\ opSlept' = opSlept + OpDelay(opKind, err)
             /\ IF err = Nil
                THEN /\ ret' = Nil
                     /\ rpc' = "returned"
                     /\ UNCHANGED <<ri, lastErr, slept>>
                ELSE IF IsNonRetryable(err)
                THEN /\ lastErr' = RecordError(lastErr, err)
                     /\ ret' = lastErr'
                     /\ rpc' = "returned"
                     /\ UNCHANGED <<ri, slept>>
                ELSE /\ lastErr' = RecordError(lastErr, err)
                     /\ slept' = slept + InterAttemptDelay(ri, err)
                     /\ ri' = ri + 1
                     /\ UNCHANGED <<rpc, ret>>
    /\ UNCHANGED <<rctx, opKind>>
    /\ UNCHANGED <<pollVars, webhookVars, peerVars>>

\* i == maxRetries: the loop ends, return lastErr
RetryExhausted ==
    /\ rpc = "check"
    /\ ri >= maxRetries
    /\ ret' = lastErr
    /\ rpc' = "returned"
    /\ UNCHANGED <<ri, lastErr, rctx, opKind, calls, attempts, slept, opSlept>>
    /\ UNCHANGED <<pollVars, webhookVars, peerVars>>

\* the caller cancels the context passed to retryRequest
RetryCtxCancel ==
    /\ rpc = "check"
    /\ ~rctx
    /\ rctx' = TRUE
    /\ UNCHANGED <<rpc, ri, lastErr, ret, opKind, calls, attempts, slept, opSlept>>
    /\ UNCHANGED <<pollVars, webhookVars, peerVars>>

retryRequest == RetryCtxDone \/ RetryAttempt \/ RetryExhausted

(***************************************************************************)
(* Webhook ingress: VerifySignature and ParseRequest                       *)
(***************************************************************************)
\* A request body is a sequence of bytes; the model's bytes are JSON tokens.
\* Each token has a code in 1..7, so a body is a numeral in base 8.
TokenCode(tok) ==
    CASE tok = "{" -> 1
      [] tok = "}" -> 2
      [] tok = "type" -> 3
      [] tok = ":" -> 4
      [] tok = "message" -> 5
      [] tok = "" -> 6
      [] tok = "null" -> 7

\* the string values a "type" member carries in the model
StringTokens == {"message", ""}

RECURSIVE Prefixes(_)
Prefixes(b) == IF b = <<>> THEN {<<>>} ELSE {b} \cup Prefixes(SubSeq(b, 1, Len(b) - 1))

\* {"type":"message"}, {"type":""}, {} and null, and every truncation of them
Bodies ==
    Prefixes(<<"{", "type", ":", "message", "}">>)
      \cup Prefixes(<<"{", "type", ":", "", "}">>)
      \cup Prefixes(<<"{", "}">>)
      \cup Prefixes(<<"null">>)

\* the configured secrets of the model; "" is the unconfigured secret
Secrets == {"", "s3cr3t", "other"}

SecretCode(key) == CASE key = "s3cr3t" -> 1 [] key = "other" -> 2 [] key = "" -> 0

RECURSIVE BodyCode(_)
BodyCode(b) ==
    IF b = <<>> THEN 0 ELSE BodyCode(SubSeq(b, 1, Len(b) - 1)) * 8 + TokenCode(b[Len(b)])

\* hmac.New(sha256.New, key); mac.Write(body); mac.Sum(nil): the digest is
\* idealised as a collision-free function of key and body: a five-token
\* body has a code below 8^5 + 8^4, under 2^16
HmacSum(key, b) == SecretCode(key) * 65536 + BodyCode(b)

\* number of hex digits of an encoded digest
DigestHexLen == 5

RECURSIVE HexDigits(_, _)
HexDigits(n, width) ==
    IF width = 0 THEN <<>> ELSE Append(HexDigits(n \div 16, width - 1), n % 16)

\* hex.EncodeToString: a string of hex digits, most significant first
hexEncodeToString(n) == HexDigits(n, DigestHexLen)

\* (variant) the digest is compared whether or not a secret is configured
VerifySignature_AlwaysChecks(key, signature, body) ==
    signature = hexEncodeToString(HmacSum(key, body))

\* (variant) any non-empty signature is accepted
VerifySignature_AcceptsAny(key, signature, body) == TRUE

\* VerifySignature: an unconfigured secret skips verification; otherwise the
\* signature must equal the hex digest of the body, byte for byte
VerifySignature(key, signature, body) ==
    IF key = "" THEN TRUE
    ELSE signature = hexEncodeToString(HmacSum(key, body))

\* json.Unmarshal(body, &event): the zero event (Type "") filled from the
\* document; null leaves it untouched; anything but a complete document is
\* a syntax error
Unmarshal(body) ==
    IF body = <<"null">> \/ body = <<"{", "}">>
    THEN [err |-> Nil, event |-> [Type |-> ""]]
    ELSE IF /\ Len(body) = 5
            /\ body[1] = "{" /\ body[2] = "type" /\ body[3] = ":"
            /\ body[4] \in StringTokens /\ body[5] = "}"
    THEN [err |-> Nil, event |-> [Type |-> body[4]]]
    ELSE [err |-> Error("none", "error unmarshaling event"), event |-> [Type |-> ""]]

\* the X-Signature values of the model: absent, every digest, and a string
\* that is no digest
Signatures ==
    {<<>>, <<13, 14, 10, 13>>}
      \cup {hexEncodeToString(HmacSum(k, b)) : k \in Secrets \ {""}, b \in Bodies}

\* an inbound request: method, X-Signature header (<<>> when absent), the
\* body, and whether reading the body fails
Requests ==
    [Method : {"POST", "GET"}, Signature : Signatures, Body : Bodies, ReadFails : BOOLEAN]

Result(event, err) == [event |-> event, err |-> err]

\* (variant) the type of the decoded event is not looked at
ParseRequest_NoTypeCheck(key, r) ==
    IF r.Method # "POST"
    THEN Result(Nil, Error("none", "invalid HTTP method, expected POST"))
    ELSE IF r.Signature = <<>>
    THEN Result(Nil, Error("none", "missing X-Signature header"))
    ELSE IF r.ReadFails
    THEN Result(Nil, Error("none", "error reading body"))
    ELSE IF ~VerifySignature(key, r.Signature, r.Body)
    THEN Result(Nil, Error("ErrSignatureInvalid", "invalid webhook signature"))
    ELSE IF Unmarshal(r.Body).err # Nil
    THEN Result(Nil, Unmarshal(r.Body).err)
    ELSE Result(Unmarshal(r.Body).event, Nil)

\* (variant) the body is decoded before the signature is verified
ParseRequest_DecodesFirst(key, r) ==
    IF r.Method # "POST"
    THEN Result(Nil, Error("none", "invalid HTTP method, expected POST"))
    ELSE IF r.Signature = <<>>
    THEN Result(Nil, Error("none", "missing X-Signature header"))
    ELSE IF r.ReadFails
    THEN Result(Nil, Error("none", "error reading body"))
    ELSE IF Unmarshal(r.Body).err # Nil
    THEN Result(Nil, Unmarshal(r.Body).err)
    ELSE IF ~VerifySignature(key, r.Signature, r.Body)
    THEN Result(Nil, Error("ErrSignatureInvalid", "invalid webhook signature"))
    ELSE IF Unmarshal(r.Body).event.Type = ""
    THEN Result(Nil, Error("none", "missing event type"))
    ELSE Result(Unmarshal(r.Body).event, Nil)

\* ParseRequest
ParseRequest(key, r) ==
    IF r.Method # "POST"
    THEN Result(Nil, Error("none", "invalid HTTP method, expected POST"))
    ELSE IF r.Signature = <<>>
    THEN Result(Nil, Error("none", "missing X-Signature header"))
    ELSE IF r.ReadFails
    THEN Result(Nil, Error("none", "error reading body"))
    ELSE IF ~VerifySignature(key, r.Signature, r.Body)
    THEN Result(Nil, Error("ErrSignatureInvalid", "invalid webhook signature"))
    ELSE IF Unmarshal(r.Body).err # Nil
    THEN Result(Nil, Unmarshal(r.Body).err)
    ELSE IF Unmarshal(r.Body).event.Type = ""
    THEN Result(Nil, Error("none", "missing event type"))
    ELSE Result(Unmarshal(r.Body).event, Nil)

\* NewWebhookHandler(secret, logger); no request has been parsed yet
WebhookInit ==
    /\ secret \in Secrets
    /\ request = Nil
    /\ whEvent = Nil
    /\ whErr = Nil
    /\ whVia = "none"
    /\ nextCalls = 0
    /\ nextEvent = Nil
    /\ respStatus = 0
    /\ respBody = ""
    /\ vSig = <<>>
    /\ vBody = <<>>
    /\ vResults = <<>>

\* one inbound request goes through ParseRequest
ReceiveWebhook ==
    /\ request = Nil
    /\ \E r \in Requests :
          /\ request' = r
          /\ whEvent' = ParseRequest(secret, r).event
          /\ whErr' = ParseRequest(secret, r).err
    /\ whVia' = "ParseRequest"
    /\ UNCHANGED <<secret, nextCalls, nextEvent, respStatus, respBody,
                   vSig, vBody, vResults>>
    /\ UNCHANGED <<pollVars, retryVars, peerVars>>

http_StatusBadRequest == 400

\* (variant) the downstream handler runs whatever ParseRequest returned
HandleWebhook_AlwaysCallsNext ==
    /\ request = Nil
    /\ \E r \in Requests :
          LET res == ParseRequest(secret, r)
          IN /\ request' = r
             /\ whEvent' = res.event
             /\ whErr' = res.err
             /\ nextCalls' = nextCalls + 1
             /\ nextEvent' = res.event
             /\ IF res.err # Nil
                THEN /\ respStatus' = http_StatusBadRequest
                     /\ respBody' = res.err.msg
                ELSE UNCHANGED <<respStatus, respBody>>
    /\ whVia' = "Handle"
    /\ UNCHANGED <<secret, vSig, vBody, vResults>>
    /\ UNCHANGED <<pollVars, retryVars, peerVars>>

\* one inbound request goes through the handler returned by Handle(next):
\* ParseRequest, then either http.Error(w, err.Error(), 400) and return, or
\* next.ServeHTTP with the event stored in the request context
HandleWebhook ==
    /\ request = Nil
    /\ \E r \in Requests :
          LET res == ParseRequest(secret, r)
          IN /\ request' = r
             /\ whEvent' = res.event
             /\ whErr' = res.err
             /\ IF res.err # Nil
                THEN /\ respStatus' = http_StatusBadRequest
                     /\ respBody' = res.err.msg
                     /\ UNCHANGED <<nextCalls, nextEvent>>
                ELSE /\ nextCalls' = nextCalls + 1
                     /\ nextEvent' = res.event
                     /\ UNCHANGED <<respStatus, respBody>>
    /\ whVia' = "Handle"
    /\ UNCHANGED <<secret, vSig, vBody, vResults>>
    /\ UNCHANGED <<pollVars, retryVars, peerVars>>

\* a caller verifies a (signature, body) pair, then the same pair again
VerifyCall ==
    /\ Len(vResults) < MaxVerify
    /\ \E sig \in Signatures, body \in Bodies :
          /\ vResults = <<>> \/ (sig = vSig /\ body = vBody)
          /\ vSig' = sig
          /\ vBody' = body
          /\ vResults' = Append(vResults, VerifySignature(secret, sig, body))
    /\ UNCHANGED <<secret, request, whEvent, whErr, whVia, nextCalls, nextEvent,
                   respStatus, respBody>>
    /\ UNCHANGED <<pollVars, retryVars, peerVars>>

Init == PollInit /\ RetryInit /\ WebhookInit

\* the components that stay untouched when one component is examined alone:
\* a session with the default offset and an unbuffered channel, a run over a
\* live context, a handler without a secret
PollIdle == PollInit /\ BufferSize = 0 /\ startOffset = 0

RetryIdle == RetryInit /\ ~rctx /\ opKind = "stub"

WebhookIdle == WebhookInit /\ secret = ""

\* no second session
PeerIdle == sameConfig = FALSE /\ peerWritten = {} /\ peerOffset = 0

PollNext == pollingWorker \/ Cancel \/ Receive

RetryNext == retryRequest \/ RetryCtxCancel

WebhookNext == ReceiveWebhook \/ HandleWebhook

VerifyNext == VerifyCall

\* a polling session on its own
InitPolling == PollInit /\ RetryIdle /\ WebhookIdle /\ PeerIdle

PollSpec == InitPolling /\ [][PollNext]_vars

\* one run of retryRequest on its own
InitRetry == PollIdle /\ RetryInit /\ WebhookIdle /\ PeerIdle

RetrySpec == InitRetry /\ [][RetryNext]_vars

\* the webhook ingress on its own
InitWebhook == PollIdle /\ RetryIdle /\ WebhookInit /\ PeerIdle

WebhookSpec == InitWebhook /\ [][WebhookNext]_vars

\* VerifySignature called directly on a handler
VerifySpec == InitWebhook /\ [][VerifyNext]_vars

\* two sessions started on one client, the first with offset 0 and a channel
\* of one slot
InitTwoSessions ==
    /\ PollInit
    /\ BufferSize = 1
    /\ startOffset = 0
    /\ RetryIdle
    /\ WebhookIdle
    /\ PeerInit

TwoSessionsNext == PollNext \/ PeerSendEvent \/ BuildRequestRacy

TwoSessionsSpec == InitTwoSessions /\ [][TwoSessionsNext]_vars

\* retryRequest runs on its goroutine until it returns
FairRetrySpec == RetrySpec /\ WF_vars(retryRequest)

\* the worker goroutine keeps being scheduled and the consumer keeps receiving
FairPollSpec == PollSpec /\ WF_vars(pollingWorker) /\ WF_vars(Receive)

(***************************************************************************)
(* Properties of the polling session                                       *)
(***************************************************************************)
\* update ids of the event records placed on the channel so far
delivered == EventIds(placed)

Last(s) == s[Len(s)]

CursorFollowsDelivery ==
    IF delivered = <<>> THEN UpdateOffset = startOffset
    ELSE UpdateOffset = Last(delivered) + 1

\* C1: after N >= 1 event records have been placed on the channel the cursor
\* equals the update id of the most recently placed event plus 1; before any
\* event is placed it equals the configured starting offset.
C1_CursorIsLastDeliveredPlusOne == CursorFollowsDelivery

C1_Witness ==
    /\ Len(delivered) >= 2
    /\ UpdateOffset = Last(delivered) + 1
    /\ UpdateOffset # startOffset

\* C2: for every sequence of fetch results, including batches whose ids are
\* not increasing or lie below the cursor, the cursor never decreases from
\* one state to the next.
C2_CursorNeverDecreases == [][UpdateOffset' >= UpdateOffset]_vars

\* every fetched event so far is accounted for: placed in fetch order, and
\* the rest still pending in the range loop
NoEventDropped ==
    /\ Len(updates) <= BufferSize
    /\ Len(delivered) <= Len(fetched)
    /\ delivered = SubSeq(IdsOf(fetched), 1, Len(delivered))
    /\ pc = "send" => Len(fetched) - Len(delivered) = Len(batch) - idx + 1
    /\ pc \in {"loop", "fetch", "sleep"} => delivered = IdsOf(fetched)

\* C3: a fetched event is never dropped because the channel is full: the
\* send waits for room, every event of a batch is placed exactly once in
\* fetch order, no fetch is issued while an event of the batch is pending,
\* and, unless cancellation fires, each fetched event is eventually placed.
C3_BackpressureNeverDrops ==
    /\ []NoEventDropped
    /\ (Len(delivered) < Len(fetched)) ~> (delivered = IdsOf(fetched) \/ cancelled)

C3_Witness ==
    /\ BufferSize = 1
    /\ ~cancelled
    /\ Len(batch) = 2
    /\ idx = 3
    /\ Len(fetched) >= 2
    /\ delivered = IdsOf(fetched)

\* C4: when cancellation has fired while the worker is blocked sending to a
\* full channel and the consumer does not receive, the worker's step stops
\* it and closes the channel, the pending event is not placed and the
\* cursor stays at (last delivered id) + 1.
C4_CancelWhileBlockedStops ==
    [][ ( /\ pc = "send"
          /\ cancelled
          /\ BufferSize > 0
          /\ Len(updates) = BufferSize
          /\ updates' = updates
          /\ <<pc, idx>>' # <<pc, idx>> )
        => ( /\ pc' = "done"
             /\ closeCount' = closeCount + 1
             /\ placed' = placed
             /\ UpdateOffset' = UpdateOffset
             /\ CursorFollowsDelivery' ) ]_vars

C4_Witness ==
    /\ pc = "done"
    /\ cancelled
    /\ batch # <<>>
    /\ idx = 2
    /\ Len(batch) = 2
    /\ BufferSize > 0
    /\ Len(updates) = BufferSize
    /\ UpdateOffset = batch[1].UpdateID + 1
    /\ UpdateOffset # batch[2].UpdateID + 1

RunningOrStopped ==
    /\ closeCount \in {0, 1}
    /\ closeCount = 1 <=> pc = "done"
    /\ closeCount = 1 => cancelled

\* C5: the session is Running until the channel is closed; the channel is
\* closed only after cancellation has fired (never on a fetch error, a
\* non-OK response or an empty batch), at most once, and once cancellation
\* fires the worker eventually closes it, whatever step it is in.
C5_StopsOnlyAndEventuallyOnCancel ==
    /\ []RunningOrStopped
    /\ cancelled ~> (closeCount = 1)

C5_Witness ==
    /\ closeCount = 1
    /\ pc = "done"
    /\ \E i \in 1..Len(placed) : placed[i].Error # Nil

(***************************************************************************)
(* Properties of retryRequest                                              *)
(***************************************************************************)
RetryReturned == rpc = "returned"

\* every invocation so far failed with an error of the given set
AllCallsIn(S) == calls # <<>> /\ \A k \in 1..Len(calls) : calls[k] \in S

AuthOrChatIDErrors ==
    {e \in StubOutcomes : e # Nil /\ e.is \in {"ErrUnauthorized", "ErrInvalidChatID"}}

ServerErrors ==
    {Error("none", "API error 500: internal"), Error("none", "API error 503: unavailable")}

\* C6: when the operation fails with ErrUnauthorized or ErrInvalidChatID,
\* retryRequest has invoked it exactly once, has slept no inter-attempt
\* delay and returns that error, whatever attempts remain.
C6_NonRetryableStopsAtOnce ==
    (RetryReturned /\ AllCallsIn(AuthOrChatIDErrors))
        => (Len(calls) = 1 /\ slept = 0 /\ ret = calls[1])

C6_Witness ==
    /\ RetryReturned
    /\ calls = <<ErrUnauthorized>>
    /\ ret = ErrUnauthorized

\* C7: when every invocation fails with a generic server error and the
\* context is never cancelled, retryRequest invokes the operation exactly
\* maxRetries times and returns the error of the last invocation.
C7_ExhaustionReturnsLastError ==
    (RetryReturned /\ ~rctx /\ AllCallsIn(ServerErrors))
        => (Len(calls) = maxRetries /\ ret = calls[Len(calls)])

C7_Witness ==
    /\ RetryReturned
    /\ ~rctx
    /\ Len(calls) = maxRetries
    /\ AllCallsIn(ServerErrors)
    /\ calls[1] # calls[maxRetries]
    /\ ret = calls[maxRetries]

\* C8: when the operation returns ErrRateLimit on attempts 1 and 2 and
\* succeeds on attempt 3, retryRequest returns nil and the delay between the
\* first and the third invocation is at least 2 x rateLimitDelay.
C8_RateLimitBackoff ==
    (RetryReturned /\ calls = <<ErrRateLimit, ErrRateLimit, Nil>>)
        => (ret = Nil /\ slept + opSlept >= 2 * rateLimitDelay)

\* C9: cancellation is checked before every attempt, the first included: a
\* step taken at the loop head under a cancelled context invokes nothing and
\* returns the context's error, and a context cancelled from the start
\* yields zero invocations.
C9_CancelledCheckSkipsOperation ==
    /\ [][ (rctx /\ rpc = "check" /\ ri < maxRetries /\ <<rpc, ri, calls>>' # <<rpc, ri, calls>>)
            => (calls' = calls /\ rpc' = "returned" /\ ret' = ContextCanceled) ]_vars
    /\ (rctx => [](calls = <<>>))

C9_Witness ==
    /\ RetryReturned
    /\ ret = ContextCanceled
    /\ Len(calls) = 2

\* the first invocation of an API call's closure got a response with status st
FirstResponseIs(st) ==
    /\ opKind \in APICalls
    /\ attempts # <<>>
    /\ attempts[1].step = "response"
    /\ attempts[1].status = st

\* C14: when the remote side answers an API call that runs under the retry
\* policy with HTTP 401, the error is classified as authorization-failed and
\* the call makes exactly one round trip.
C14_UnauthorizedSurfacesAtOnce ==
    (RetryReturned /\ ~rctx /\ FirstResponseIs(401))
        => (Len(attempts) = 1 /\ errorsIs(ret, ErrUnauthorized))

\* the first invocation failed building the request, encoding the body or
\* decoding the response
FirstFailureIsNotRetryable ==
    /\ opKind \in APICalls
    /\ attempts # <<>>
    /\ \/ attempts[1].step \in {"marshal", "create"}
       \/ /\ attempts[1].step = "response"
          /\ attempts[1].status < 400
          /\ ~attempts[1].decodes
          /\ DecodesResult(opKind)

\* C15: an operation that fails with a request-construction, body-encode or
\* response-decode error is invoked exactly once; only network failures and
\* server or rate-limit errors lead to further attempts.
C15_OnlyTransientFailuresRetried ==
    (RetryReturned /\ ~rctx /\ FirstFailureIsNotRetryable) => Len(attempts) = 1

(***************************************************************************)
(* Properties of the webhook ingress                                       *)
(***************************************************************************)
Parsed == request # Nil

\* the five conditions under which a request carries an acceptable event
Acceptable(r) ==
    /\ r.Method = "POST"
    /\ r.Signature # <<>>
    /\ ~r.ReadFails
    /\ secret # "" => r.Signature = hexEncodeToString(HmacSum(secret, r.Body))
    /\ r.Body \in {<<"{", "type", ":", "message", "}">>}

\* C10: ParseRequest returns an event only when the method is POST, the
\* X-Signature header is non-empty, the signature verifies, the body decodes
\* and the decoded type is non-empty, checked in this order; otherwise it
\* returns an error and no event; exactly one of (event, error) is non-nil.
C10_ParseRequestGate ==
    Parsed =>
      /\ (whEvent = Nil) # (whErr = Nil)
      /\ whEvent # Nil <=> Acceptable(request)
      /\ whEvent # Nil => whEvent.Type # ""
      /\ request.Method # "POST" => whErr.msg = "invalid HTTP method, expected POST"
      /\ (request.Method = "POST" /\ request.Signature = <<>>)
            => whErr.msg = "missing X-Signature header"
      /\ ( /\ request.Method = "POST" /\ request.Signature # <<>> /\ ~request.ReadFails
           /\ secret # ""
           /\ request.Signature # hexEncodeToString(HmacSum(secret, request.Body)) )
            => whErr.msg = "invalid webhook signature"
      /\ ( /\ whErr # Nil
           /\ whErr.msg \in {"error unmarshaling event", "missing event type"} )
            => /\ request.Method = "POST" /\ request.Signature # <<>>
               /\ VerifySignature(secret, request.Signature, request.Body)
      /\ (whErr # Nil /\ whErr.msg = "missing event type")
            => Unmarshal(request.Body).err = Nil

C10_Witness ==
    /\ Parsed
    /\ secret = "s3cr3t"
    /\ whEvent # Nil
    /\ whEvent.Type = "message"
    /\ whErr = Nil

\* the hex digest a sender holding key computes for body
ExpectedSignature(key, body) == hexEncodeToString(HmacSum(key, body))

\* the bodies that are complete JSON documents
DecodableBodies ==
    { <<"{", "type", ":", "message", "}">>, <<"{", "type", ":", "", "}">>,
      <<"{", "}">>, <<"null">> }

\* a POST with a signature header and a readable body reached the handler
ReachedVerification ==
    /\ Parsed
    /\ request.Method = "POST"
    /\ request.Signature # <<>>
    /\ ~request.ReadFails

\* C11: with a configured secret, a signature that does not match is
\* rejected with ErrSignatureInvalid whether or not the body decodes (the
\* signature error, never the decode error), and a body that verifies but
\* does not decode yields an error other than ErrSignatureInvalid.
C11_SignatureBeforeDecode ==
    (ReachedVerification /\ secret # "") =>
      /\ request.Signature # ExpectedSignature(secret, request.Body)
            => (whEvent = Nil /\ whErr # Nil /\ whErr.is = "ErrSignatureInvalid")
      /\ ( /\ request.Signature = ExpectedSignature(secret, request.Body)
           /\ request.Body \notin DecodableBodies )
            => (whEvent = Nil /\ whErr # Nil /\ whErr.is # "ErrSignatureInvalid")

C11_Witness ==
    /\ ReachedVerification
    /\ secret = "s3cr3t"
    /\ request.Body = <<"{", "type", ":", "message">>
    /\ request.Signature = ExpectedSignature("other", request.Body)
    /\ whErr # Nil
    /\ whErr.is = "ErrSignatureInvalid"

C13_HandleGatesDownstream ==
    whVia = "Handle" =>
      IF Acceptable(request)
      THEN /\ nextCalls = 1
           /\ nextEvent # Nil
           /\ nextEvent = whEvent
           /\ nextEvent.Type = request.Body[4]
           /\ respStatus = 0
      ELSE /\ nextCalls = 0
           /\ nextEvent = Nil
           /\ respStatus = 400
           /\ whErr # Nil
           /\ respBody = whErr.msg

C13_Witness ==
    /\ whVia = "Handle"
    /\ secret = "s3cr3t"
    /\ nextCalls = 1
    /\ nextEvent # Nil
    /\ nextEvent.Type = "message"
    /\ respStatus = 0

(***************************************************************************)
(* Properties of the polling session's error path, records and ordering    *)
(***************************************************************************)
\* an iteration whose fetch fails before a body is decoded
FailedFetch == BuildRequestFails \/ FetchNetworkError \/ FetchStatusError

\* a record that carries an error and nothing else
IsErrorOnly(r) == r.Event = Nil /\ r.Error # Nil

\* what a failed fetch does to the channel: either one error-only record is
\* taken by the channel (behind the records already queued, or straight by a
\* waiting consumer), or the channel has no room and nothing changes
ErrorPathEffect ==
    /\ pc' = "sleep"
    /\ UpdateOffset' = UpdateOffset
    /\ \/ /\ errSent' = "sent"
          /\ Len(placed') = Len(placed) + 1
          /\ SubSeq(placed', 1, Len(placed)) = placed
          /\ IsErrorOnly(Last(placed'))
          /\ \/ /\ Len(updates) < BufferSize
                /\ updates' = Append(updates, Last(placed'))
             \/ /\ BufferSize = 0
                /\ updates' = updates
       \/ /\ errSent' = "dropped"
          /\ Len(updates) >= BufferSize
          /\ UNCHANGED <<updates, placed>>

\* C16: a failed fetch (request construction, network failure, non-2xx
\* response) never blocks the worker: it is always able to take the error
\* path, which enqueues at most one error-only record, drops it when the
\* channel is full, removes or overwrites no queued record, and leads to the
\* retry delay and from there to the next iteration.
C16_ErrorPathNeverBlocks ==
    /\ [](pc = "fetch" => (ENABLED FetchNetworkError /\ ENABLED FetchStatusError))
    /\ []((pc = "loop" /\ ~cancelled /\ iter < MaxIter) => ENABLED BuildRequestFails)
    /\ [](pc = "sleep" => ENABLED RetryDelayElapsed)
    /\ [][FailedFetch => ErrorPathEffect]_vars

\* the error of a failed fetch was dropped because the buffer was full of an
\* event the consumer had not taken, and the worker is in the retry delay
C16_Witness ==
    /\ pc = "sleep"
    /\ errSent = "dropped"
    /\ BufferSize > 0
    /\ Len(updates) = BufferSize
    /\ updates[1].Event # Nil

\* a PollingUpdate with exactly one of Event and Error set
IsEventOrError(r) ==
    \/ /\ r.Event # Nil
       /\ r.Error = Nil
       /\ r.UpdateID = r.Event.UpdateID
    \/ IsErrorOnly(r)

\* C17: every record ever placed on the delivery channel has exactly one of
\* event and error populated; an event record carries its event's update id.
C17_ExactlyOneOfEventOrError ==
    /\ \A i \in 1..Len(placed) : IsEventOrError(placed[i])
    /\ \A i \in 1..Len(updates) : IsEventOrError(updates[i])

C17_Witness ==
    \E i, j \in 1..Len(placed) :
        /\ placed[i].Event # Nil
        /\ placed[i].UpdateID = 1
        /\ placed[j].Error # Nil

\* C18: events reach the channel in the order the remote side returned them,
\* and the update ids of delivered events never go down.
C18_DeliveredIdsMonotonic ==
    /\ delivered = SubSeq(IdsOf(fetched), 1, Len(delivered))
    /\ \A i, j \in 1..Len(delivered) : i < j => delivered[i] <= delivered[j]

\* C19: the cursor changes only as the effect of a successful send of an
\* event record, to that event's id plus 1; an iteration that ends in the
\* retry delay or with an empty result list leaves it alone; the offset of a
\* request in flight is the cursor.
C19_CursorMovesOnlyOnSend ==
    /\ [][UpdateOffset' # UpdateOffset =>
            /\ pc = "send"
            /\ placed' = Append(placed, EventUpdate(batch[idx]))
            /\ UpdateOffset' = batch[idx].UpdateID + 1]_vars
    /\ [][(pc \in {"loop", "fetch"} /\ pc' \in {"loop", "sleep"}) =>
            UpdateOffset' = UpdateOffset]_vars
    /\ [](pc = "fetch" => reqOffset = UpdateOffset)

\* the second request of a session carries the cursor the first batch left
C19_Witness ==
    /\ pc = "fetch"
    /\ iter = 2
    /\ delivered # <<>>
    /\ UpdateOffset # startOffset
    /\ reqOffset = UpdateOffset

\* C20: once cancellation has fired no further event record is placed on the
\* channel, and the worker stops with the cursor at the last delivered id
\* plus 1.
C20_NoEventAfterCancel ==
    /\ [][cancelled => EventIds(placed') = EventIds(placed)]_vars
    /\ []((cancelled /\ pc = "done") => CursorFollowsDelivery)

(***************************************************************************)
(* Properties of two sessions on one client                                *)
(***************************************************************************)
\* the workers that have stored into the first session's cursor
CursorWriters ==
    (IF delivered # <<>> THEN {"worker"} ELSE {})
      \cup (IF sameConfig /\ peerWritten # {} THEN {"peer"} ELSE {})

\* C21: the cursor of a session is written only by that session's worker,
\* also when two sessions are started with the same PollingConfig, and it
\* reflects only that session's own deliveries; so does the offset of the
\* request it has in flight.
C21_CursorHasOneWriter ==
    /\ Cardinality(CursorWriters) <= 1
    /\ CursorFollowsDelivery
    /\ pc = "fetch" => reqOffset = UpdateOffset

\* sessions with configs of their own keep their cursors apart
SeparateConfigsStayApart == ~sameConfig => C21_CursorHasOneWriter

(***************************************************************************)
(* Properties of the webhook ingress without a secret                      *)
(***************************************************************************)
\* C22: with an empty secret VerifySignature returns true for every
\* signature and body, so ParseRequest accepts any POST that carries a
\* non-empty X-Signature and a body that decodes with a non-empty type; a
\* POST without X-Signature is still rejected with the missing-signature
\* error.
C22_EmptySecretSkipsVerification ==
    secret = "" =>
        /\ \A sig \in Signatures, body \in Bodies : VerifySignature(secret, sig, body)
        /\ (/\ Parsed
            /\ request.Method = "POST"
            /\ request.Signature # <<>>
            /\ ~request.ReadFails
            /\ request.Body = <<"{", "type", ":", "message", "}">>)
              => (whEvent # Nil /\ whEvent.Type = "message" /\ whErr = Nil)
        /\ (Parsed /\ request.Method = "POST" /\ request.Signature = <<>>)
              => (whEvent = Nil /\ whErr # Nil /\ whErr.msg = "missing X-Signature header")

\* a POST signed with something that is no digest of its body is accepted
C22_Witness ==
    /\ secret = ""
    /\ Parsed
    /\ request.Method = "POST"
    /\ request.Signature = <<13, 14, 10, 13>>
    /\ request.Body = <<"{", "type", ":", "message", "}">>
    /\ ~request.ReadFails
    /\ whEvent # Nil
    /\ whErr = Nil

(***************************************************************************)
(* Properties of the attempt budget of retryRequest                        *)
(***************************************************************************)
\* nil comes back exactly when the last invocation returned nil; in
\* particular never when every invocation failed or none was made
NilIffLastSucceeded ==
    RetryReturned => (ret = Nil <=> (calls # <<>> /\ Last(calls) = Nil))

\* every invocation but the last returned an error
StopsAtFirstSuccess == \A k \in 1..(Len(calls) - 1) : calls[k] # Nil

\* the inter-attempt delays slept are exactly those between invocations
NoDelayAfterLastCall ==
    (RetryReturned /\ calls # <<>>) => slept = retryDelay * (Len(calls) - 1)

\* as above, but a run ended by the context check at the loop head has also
\* slept the delay that followed its last invocation
NoDelayAfterLastCallUnlessCancelled ==
    RetryReturned =>
        IF ret = ContextCanceled
        THEN slept = retryDelay * Len(calls)
        ELSE calls # <<>> /\ slept = retryDelay * (Len(calls) - 1)

\* C23 as stated: retryRequest returns after at most maxRetries invocations,
\* returns nil if and only if its last invocation returned nil, stops at the
\* first success, and has slept no inter-attempt delay after its final
\* invocation.
C23_AttemptBudget_AsStated ==
    /\ [](Len(calls) <= maxRetries)
    /\ []StopsAtFirstSuccess
    /\ []NilIffLastSucceeded
    /\ []NoDelayAfterLastCall
    /\ <>RetryReturned

\* C23: retryRequest returns after at most maxRetries invocations, returns
\* nil if and only if its last invocation returned nil, stops at the first
\* success, and has slept no inter-attempt delay after its final invocation
\* unless it returns because the context was found cancelled at the loop
\* head, in which case the delay after the last failed invocation has been
\* slept.
C23_AttemptBudget ==
    /\ [](Len(calls) <= maxRetries)
    /\ []StopsAtFirstSuccess
    /\ []NilIffLastSucceeded
    /\ []NoDelayAfterLastCallUnlessCancelled
    /\ <>RetryReturned

\* one failed invocation, the delay, then the context check ends the run
C23_Witness ==
    /\ RetryReturned
    /\ Len(calls) = 1
    /\ calls[1] # Nil
    /\ slept = retryDelay
    /\ ret = ContextCanceled

====
